---- MODULE Spec2Model ----
(***************************************************************************)
(* Model of highdicom.pm.sop.ParametricMap: the constructor __init__ as a  *)
(* step machine (one step per check of the constructor and one per frame   *)
(* of _create_frame_items), with _get_pixel_data_type_and_attr and         *)
(* _encode_frame as operators.                                             *)
(*                                                                         *)
(* Conventions:                                                            *)
(*   - an optional value (an attribute that may be unset, an argument that *)
(*     may be None) is a sequence of length 0 (unset / None) or 1;         *)
(*   - a numpy array is a record [dtype, shape, data], data being the      *)
(*     elements in row-major (C) order;                                    *)
(*   - a bytes object is a sequence of numbers 0..255;                     *)
(*   - a floating-point sample is identified by its IEEE-754 bit pattern.  *)
(***************************************************************************)
EXTENDS Integers, Sequences, FiniteSets, TLC

\* ------------------------------------------------------------------ bounds
\* largest size of the position dimension n of an enumerated array
MaxPlanes == 2
\* largest size of the channel dimension m of an enumerated array
MaxChannels == 2
\* number of rows r of every enumerated array
PlaneRows == 1
\* number of columns c of every enumerated array
PlaneCols == 2

\* ------------------------------------------------------- numeric helpers
Pow2(k) == 2 ^ k

RECURSIVE Product(_)
Product(s) == IF s = <<>> THEN 1 ELSE Head(s) * Product(Tail(s))

RECURSIVE Concat(_)
Concat(ss) == IF ss = <<>> THEN <<>> ELSE Head(ss) \o Concat(Tail(ss))

Some(x) == <<x>>
None == <<>>

\* ------------------------------------------------------- transfer syntaxes
ImplicitVRLittleEndian == "ImplicitVRLittleEndian"
ExplicitVRLittleEndian == "ExplicitVRLittleEndian"
JPEG2000Lossless == "JPEG2000Lossless"
RLELossless == "RLELossless"
JPEGBaseline8Bit == "JPEGBaseline8Bit"

TransferSyntaxes ==
    { ImplicitVRLittleEndian, ExplicitVRLittleEndian, JPEG2000Lossless,
      RLELossless, JPEGBaseline8Bit }

\* pydicom UID.is_encapsulated, for the syntaxes above
is_encapsulated(uid) ==
    uid \notin { ImplicitVRLittleEndian, ExplicitVRLittleEndian }

\* ------------------------------------------------------------ numpy dtypes
DTypes ==
    { "int8", "int16", "int32", "uint8", "uint16", "uint32",
      "float16", "float32", "float64", "bool" }

\* numpy dtype.kind
Kind(dtype) ==
    CASE dtype \in { "int8", "int16", "int32" } -> "i"
      [] dtype \in { "uint8", "uint16", "uint32" } -> "u"
      [] dtype \in { "float16", "float32", "float64" } -> "f"
      [] OTHER -> "b"

\* numpy dtype.itemsize, in bytes
ItemSize(dtype) ==
    CASE dtype \in { "int8", "uint8", "bool" } -> 1
      [] dtype \in { "int16", "uint16", "float16" } -> 2
      [] dtype \in { "int32", "uint32", "float32" } -> 4
      [] OTHER -> 8

\* smallest and largest value of an integer dtype of at most 16 bits
Lo(dtype) ==
    CASE dtype = "int8" -> -128
      [] dtype = "int16" -> -32768
      [] OTHER -> 0

Hi(dtype) ==
    CASE dtype = "int8" -> 127
      [] dtype = "int16" -> 32767
      [] dtype = "uint8" -> 255
      [] dtype = "uint16" -> 65535
      [] OTHER -> 1

\* ---------------------------------------------------------- numpy arrays
ndim(a) == Len(a.shape)

\* a[np.newaxis, ...]
NewAxisFirst(a) == [a EXCEPT !.shape = <<1>> \o a.shape]

\* a[..., np.newaxis], mutated: the axis is put first
NewAxisLastPutFirst(a) == [a EXCEPT !.shape = <<1>> \o a.shape]

\* a[..., np.newaxis]
NewAxisLast(a) == [a EXCEPT !.shape = a.shape \o <<1>>]

\* a[i, :, :, j] of a 4D array, i and j counted from 0: the (r, c) plane
Plane(a, i, j) ==
    LET r == a.shape[2]
        c == a.shape[3]
        m == a.shape[4]
    IN  [ dtype |-> a.dtype,
          shape |-> <<r, c>>,
          data |-> [ k \in 1..(r * c) |->
                       a.data[((i * r * c) + (k - 1)) * m + j + 1] ] ]

\* the k-th element (from 0) of an enumerated array of the dtype: integer
\* arrays alternate between the low and the high end of the dtype's range,
\* so they hold the extremes and no two elements are equal; floating-point
\* arrays hold the bit patterns following that of 1.0 (float32)
ArrayValue(dtype, k) ==
    IF Kind(dtype) = "f" THEN 1065353216 + k
    ELSE IF Kind(dtype) = "b" THEN k % 2
    ELSE IF k % 2 = 0 THEN Lo(dtype) + (k \div 2)
    ELSE Hi(dtype) - (k \div 2)

ArrayOf(dtype, shape) ==
    [ dtype |-> dtype,
      shape |-> shape,
      data |-> [ k \in 1..Product(shape) |-> ArrayValue(dtype, k - 1) ] ]

\* shapes of rank 0 to 5; rank 2 is (r, c), rank 3 (n, r, c), rank 4
\* (n, r, c, m)
Shapes ==
    { <<>>, <<PlaneCols>>, <<PlaneRows, PlaneCols>>,
      <<1, PlaneRows, PlaneCols, 1, 1>> }
    \cup { <<n, PlaneRows, PlaneCols>> : n \in 1..MaxPlanes }
    \cup { <<n, PlaneRows, PlaneCols, m>> :
             n \in 1..MaxPlanes, m \in 1..MaxChannels }

PixelArrays == { ArrayOf(d, s) : d \in DTypes, s \in Shapes }

\* ---------------------------------------------------------- source images
\* a source image: the five attributes the constructor compares, the
\* optional NumberOfFrames (set on multi-frame images only) and whether the
\* image has the attribute ImageOrientationSlide
SourceImage(study, frames, slide) ==
    [ StudyInstanceUID |-> study,
      SeriesInstanceUID |-> "series-1",
      Rows |-> PlaneRows,
      Columns |-> PlaneCols,
      FrameOfReferenceUID |-> "frame-of-reference-1",
      NumberOfFrames |-> frames,
      ImageOrientationSlide |-> slide ]

SingleFrameImage == SourceImage("study-1", None, FALSE)
OtherStudyImage == SourceImage("study-2", None, FALSE)
MultiFrameImage == SourceImage("study-1", Some(MaxPlanes), TRUE)

SourceImageSets ==
    { <<>>,
      <<SingleFrameImage>>,
      <<SingleFrameImage, SingleFrameImage>>,
      <<SingleFrameImage, OtherStudyImage>>,
      <<MultiFrameImage>>,
      <<MultiFrameImage, MultiFrameImage>> }

\* ------------------------------------------------------- plane positions
\* a plane position is identified by a number; the explicit argument lists
\* positions in descending spatial order
ExplicitPlanePositions(len) == [ k \in 1..len |-> 100 + (len - k) ]

PlanePositionArgs ==
    { None } \cup { Some(ExplicitPlanePositions(len)) : len \in 1..(MaxPlanes + 1) }

\* DimensionIndexSequence.get_plane_positions_of_image: one position per
\* frame of the multi-frame image
get_plane_positions_of_image(image) ==
    [ k \in 1..Head(image.NumberOfFrames) |-> 200 + k ]

\* DimensionIndexSequence.get_plane_positions_of_series: one position per
\* image of the series
get_plane_positions_of_series(images) ==
    [ k \in 1..Len(images) |-> 300 + k ]

\* DimensionIndexSequence.get_plane_positions_of_series, whether it raises:
\* the position of an image is its ImagePositionPatient, which a multi-frame
\* image does not have
series_has_no_positions(images) ==
    \E k \in 1..Len(images) : images[k].NumberOfFrames # None

\* DimensionIndexSequence.get_index_values, second result: for each of the
\* given positions, in the given order, its dimension-index values (the rank
\* of the position along the spatial dimension)
get_index_values(positions) ==
    [ k \in 1..Len(positions) |->
        << 1 + Cardinality({ q \in 1..Len(positions) :
                               positions[q] < positions[k] }) >> ]

\* ---------------------------------------------- real-world value mappings
\* a RealWorldValueMapping item is identified by a number.  The argument
\* real_world_value_mappings is a record: items is the Python sequence,
\* nested tells whether its members are sequences (of items) or items
FlatMappings(len) ==
    [ nested |-> FALSE, items |-> [ k \in 1..len |-> 10 + k ] ]

\* a nested sequence of len sub-sequences; sub-sequence k holds the mapping
\* 10 * k + 1 (sub-sequence 1 a second one as well), the sub-sequence
\* numbered empty (none when empty = 0) holds nothing
NestedMappings(len, empty) ==
    [ nested |-> TRUE,
      items |-> [ k \in 1..len |->
                    IF k = empty THEN <<>>
                    ELSE IF k = 1 THEN <<11, 12>>
                    ELSE << 10 * k + 1 >> ] ]

MappingArgs ==
    { FlatMappings(len) : len \in 0..2 }
    \cup { NestedMappings(len, empty) :
             len \in 1..MaxChannels, empty \in 0..MaxChannels }
    \cup { NestedMappings(MaxChannels + 1, 0) }

WindowWidths == { -1, 0, 1 }

\* --------------------------------------------------------------- state
VARIABLES
    args,                       \* the constructor's arguments, as passed
    pc,                         \* position in the constructor
    error,                      \* the exception raised (pc = "failed")
    pixel_array,                \* local: the array, reshaped on the way
    real_world_value_mappings,  \* local: the mappings, nested on the way
    plane_positions,            \* local: the positions, derived on the way
    is_multiframe,              \* local
    coordinate_system,          \* local
    sffg_item,                  \* local: the shared functional group
    pixel_data_type,            \* local: the _PixelDataType, with its attr
    self,                       \* attributes of the instance
    spatial_index_values,       \* local of _create_frame_items
    per_frame_functional_groups,\* local of _create_frame_items
    frames,                     \* local of _create_frame_items
    i,                          \* loop variable of _create_frame_items
    j                           \* loop variable of _create_frame_items

vars ==
    << args, pc, error, pixel_array, real_world_value_mappings,
       plane_positions, is_multiframe, coordinate_system, sffg_item,
       pixel_data_type, self, spatial_index_values,
       per_frame_functional_groups, frames, i, j >>

\* no attribute of the instance is set
NoAttributes ==
    [ TransferSyntaxUID |-> None,
      Rows |-> None,
      Columns |-> None,
      SharedFunctionalGroupsSequence |-> None,
      BitsAllocated |-> None,
      BitsStored |-> None,
      HighBit |-> None,
      PixelRepresentation |-> None,
      NumberOfFrames |-> None,
      PerFrameFunctionalGroupsSequence |-> None,
      PixelData |-> None,
      FloatPixelData |-> None,
      DoubleFloatPixelData |-> None ]

\* no attribute of the shared functional group is set
EmptyGroup ==
    [ RealWorldValueMappingSequence |-> None,
      PixelValueTransformationSequence |-> None,
      FrameVOILUTSequence |-> None ]

Arguments ==
    [ source_images : SourceImageSets,
      pixel_array : PixelArrays,
      real_world_value_mappings : MappingArgs,
      window_width : WindowWidths,
      transfer_syntax_uid : TransferSyntaxes,
      plane_positions : PlanePositionArgs ]

\* the call ParametricMap(...) has bound its arguments
InitWith(a) ==
    /\ args = a
    /\ pc = "source_images"
    /\ error = None
    /\ pixel_array = a.pixel_array
    /\ real_world_value_mappings = a.real_world_value_mappings
    /\ plane_positions = a.plane_positions
    /\ is_multiframe = FALSE
    /\ coordinate_system = None
    /\ sffg_item = EmptyGroup
    /\ pixel_data_type = None
    /\ self = NoAttributes
    /\ spatial_index_values = <<>>
    /\ per_frame_functional_groups = <<>>
    /\ frames = <<>>
    /\ i = 0
    /\ j = 0

Init == \E a \in Arguments : InitWith(a)

\* ------------------------------------------------- _PixelDataType (28-34)
SHORT == "SHORT"
USHORT == "USHORT"
SINGLE == "SINGLE"
DOUBLE == "DOUBLE"

\* self._pixel_data_type_map
pixel_data_type_map(type) ==
    CASE type \in { SHORT, USHORT } -> "PixelData"
      [] type = SINGLE -> "FloatPixelData"
      [] OTHER -> "DoubleFloatPixelData"

\* ParametricMap._get_pixel_data_type_and_attr, mutated: the width of an
\* integer is not looked at
get_pixel_data_type_and_attr_any_width(a) ==
    LET returns(type) ==
            [ raised |-> FALSE, type |-> type, attr |-> pixel_data_type_map(type) ]
        raises == [ raised |-> TRUE, type |-> "", attr |-> "" ]
    IN  IF Kind(a.dtype) = "f"
        THEN IF a.dtype = "float32" THEN returns(SINGLE)
             ELSE IF a.dtype = "float64" THEN returns(DOUBLE)
             ELSE raises
        ELSE IF Kind(a.dtype) = "u" THEN returns(USHORT)
        ELSE IF Kind(a.dtype) = "i" THEN returns(SHORT)
        ELSE raises

\* ParametricMap._get_pixel_data_type_and_attr: raises (raised = TRUE) or
\* returns the pair (type, attr)
get_pixel_data_type_and_attr(a) ==
    LET returns(type) ==
            [ raised |-> FALSE, type |-> type, attr |-> pixel_data_type_map(type) ]
        raises == [ raised |-> TRUE, type |-> "", attr |-> "" ]
    IN  IF Kind(a.dtype) = "f"
        THEN IF a.dtype = "float32" THEN returns(SINGLE)
             ELSE IF a.dtype = "float64" THEN returns(DOUBLE)
             ELSE raises
        ELSE IF Kind(a.dtype) = "u"
        THEN IF a.dtype \notin { "uint8", "uint16" } THEN raises
             ELSE returns(USHORT)
        ELSE IF Kind(a.dtype) = "i"
        THEN IF a.dtype \notin { "int8", "int16" } THEN raises
             ELSE returns(SHORT)
        ELSE raises

\* ------------------------------------------------------- sample conversion
\* ndarray.astype(np.uint16) of an integral value: kept modulo 2^16
astype_uint16(v) == v % Pow2(16)

\* ndarray.astype(np.int16) of an integral value: kept modulo 2^16, in the
\* signed range
astype_int16(v) == ((v + Pow2(15)) % Pow2(16)) - Pow2(15)

\* the bytes of one sample of the given width, least significant first
RECURSIVE LittleEndian(_, _)
LittleEndian(v, width) ==
    IF width = 0 THEN <<>>
    ELSE << v % 256 >> \o LittleEndian(v \div 256, width - 1)

\* ndarray.flatten().tobytes() of samples of the given width
tobytes(samples, width) ==
    Concat([ k \in 1..Len(samples) |-> LittleEndian(samples[k], width) ])

\* highdicom.frame.encode_frame for a lossless syntax: the code stream is
\* identified by the coding parameters and the samples it was given
encode_frame(samples, bits_allocated, bits_stored, pixel_representation) ==
    << bits_allocated, bits_stored, pixel_representation >> \o samples

\* highdicom.frame.encode_frame, whether it raises: the codec is called in
\* encapsulated mode only, and any call of it may fail
encode_frame_raises(obj) ==
    IF is_encapsulated(Head(obj.TransferSyntaxUID)) THEN BOOLEAN ELSE { FALSE }

\* pydicom.encaps.encapsulate: the number of frames, then each frame as an
\* item of its length and its bytes, in the order given
encapsulate(fs) ==
    << Len(fs) >> \o Concat([ k \in 1..Len(fs) |-> << Len(fs[k]) >> \o fs[k] ])

\* lines 745-751, mutated: signed samples are cast without the shift
NativeSamplesUnshifted(plane) ==
    IF plane.dtype = "uint8" \/ Kind(plane.dtype) = "i"
    THEN [ k \in 1..Len(plane.data) |-> astype_uint16(plane.data[k]) ]
    ELSE plane.data

\* the samples _encode_frame serialises in native mode (745-751)
NativeSamples(plane) ==
    IF plane.dtype = "uint8"
    THEN [ k \in 1..Len(plane.data) |-> astype_uint16(plane.data[k]) ]
    ELSE IF Kind(plane.dtype) = "i"
    THEN [ k \in 1..Len(plane.data) |->
             astype_uint16(astype_int16(plane.data[k]) + (Pow2(16) \div 2)) ]
    ELSE plane.data

\* lines 745-751, mutated: 8-bit samples are serialised as they are
NativeWidthNarrow(plane) == ItemSize(plane.dtype)

\* the width in bytes of a sample _encode_frame serialises in native mode
NativeWidth(plane) ==
    IF plane.dtype = "uint8" \/ Kind(plane.dtype) = "i" THEN 2
    ELSE ItemSize(plane.dtype)

\* the samples _encode_frame hands to encode_frame (737)
CodecSamples(plane) ==
    [ k \in 1..Len(plane.data) |-> astype_uint16(plane.data[k]) ]

\* ParametricMap._encode_frame, mutated: the encoder keeps count, and the
\* bytes of a frame begin with the number of frames encoded before it
self_encode_frame_counting(obj, plane) ==
    LET count == Cardinality({ k \in 1..Len(frames) : frames[k] # <<>> })
    IN  IF ndim(plane) # 2
        THEN [ raised |-> TRUE, bytes |-> <<>> ]
        ELSE IF is_encapsulated(Head(obj.TransferSyntaxUID))
        THEN [ raised |-> FALSE,
               bytes |-> << count >>
                         \o encode_frame(CodecSamples(plane),
                                         Head(obj.BitsAllocated),
                                         Head(obj.BitsStored),
                                         Head(obj.PixelRepresentation)) ]
        ELSE [ raised |-> FALSE,
               bytes |-> << count >>
                         \o tobytes(NativeSamples(plane), NativeWidth(plane)) ]

\* ParametricMap._encode_frame: raises (raised = TRUE) or returns the bytes
self_encode_frame(obj, plane) ==
    IF ndim(plane) # 2
    THEN [ raised |-> TRUE, bytes |-> <<>> ]
    ELSE IF is_encapsulated(Head(obj.TransferSyntaxUID))
    THEN [ raised |-> FALSE,
           bytes |-> encode_frame(CodecSamples(plane),
                                  Head(obj.BitsAllocated),
                                  Head(obj.BitsStored),
                                  Head(obj.PixelRepresentation)) ]
    ELSE [ raised |-> FALSE,
           bytes |-> tobytes(NativeSamples(plane), NativeWidth(plane)) ]

\* ------------------------------------------------ ParametricMap.__init__
\* the order of the steps, mutated: the window is checked after the frames
\* are encoded
NextPcLateWindow(p) ==
    CASE p = "source_images" -> "multiframe"
      [] p = "multiframe" -> "transfer_syntax"
      [] p = "transfer_syntax" -> "mapping_shape"
      [] p = "mapping_shape" -> "mapping_count"
      [] p = "mapping_count" -> "plane_positions"
      [] p = "plane_positions" -> "pixel_data_type"
      [] p = "pixel_data_type" -> "create_frame_items"
      [] p = "create_frame_items" -> "frame"
      [] p = "frame" -> "window_width"
      [] p = "window_width" -> "assemble"
      [] OTHER -> "done"

\* the order of the steps, mutated: the planes are counted before the
\* mappings
NextPcPlanesFirst(p) ==
    CASE p = "source_images" -> "multiframe"
      [] p = "multiframe" -> "transfer_syntax"
      [] p = "transfer_syntax" -> "window_width"
      [] p = "window_width" -> "mapping_shape"
      [] p = "mapping_shape" -> "plane_positions"
      [] p = "plane_positions" -> "mapping_count"
      [] p = "mapping_count" -> "pixel_data_type"
      [] p = "pixel_data_type" -> "create_frame_items"
      [] p = "create_frame_items" -> "frame"
      [] p = "frame" -> "assemble"
      [] OTHER -> "done"

\* the order of the steps, mutated: the pixel data type is resolved, and the
\* bit depth attributes are set, after the frames are encoded
NextPcLateResolution(p) ==
    CASE p = "source_images" -> "multiframe"
      [] p = "multiframe" -> "transfer_syntax"
      [] p = "transfer_syntax" -> "window_width"
      [] p = "window_width" -> "mapping_shape"
      [] p = "mapping_shape" -> "mapping_count"
      [] p = "mapping_count" -> "plane_positions"
      [] p = "plane_positions" -> "create_frame_items"
      [] p = "create_frame_items" -> "frame"
      [] p = "frame" -> "pixel_data_type"
      [] p = "pixel_data_type" -> "assemble"
      [] OTHER -> "done"

\* the order of the constructor's steps: the step that follows step p when
\* p raises nothing
NextPc(p) ==
    CASE p = "source_images" -> "multiframe"
      [] p = "multiframe" -> "transfer_syntax"
      [] p = "transfer_syntax" -> "window_width"
      [] p = "window_width" -> "mapping_shape"
      [] p = "mapping_shape" -> "mapping_count"
      [] p = "mapping_count" -> "plane_positions"
      [] p = "plane_positions" -> "pixel_data_type"
      [] p = "pixel_data_type" -> "create_frame_items"
      [] p = "create_frame_items" -> "frame"
      [] p = "frame" -> "assemble"
      [] OTHER -> "done"

locals ==
    << pixel_array, real_world_value_mappings, plane_positions, is_multiframe,
       coordinate_system, sffg_item, pixel_data_type, self >>

frame_items == << spatial_index_values, per_frame_functional_groups, frames, i, j >>

\* raise, mutated: the exception is caught and the instance is returned as
\* far as it was built
RaiseAndReturn(e) ==
    /\ pc' = "done"
    /\ error' = Some(e)
    /\ UNCHANGED << args, locals, frame_items >>

\* raise: the exception leaves the constructor, the instance is dropped
Raise(e) ==
    /\ pc' = "failed"
    /\ error' = Some(e)
    /\ UNCHANGED << args, locals, frame_items >>

\* a step that only checks, and passes
Pass ==
    /\ pc' = NextPc(pc)
    /\ UNCHANGED << args, error, locals, frame_items >>

\* lines 208-226, mutated: the frame of reference is not compared
CheckSourceImagesAnyFrameOfReference ==
    /\ pc = "source_images"
    /\ IF Len(args.source_images) = 0
       THEN Raise("NoSourceImage")
       ELSE LET uniqueness_criteria ==
                    { << args.source_images[k].StudyInstanceUID,
                         args.source_images[k].SeriesInstanceUID,
                         args.source_images[k].Rows,
                         args.source_images[k].Columns >> :
                      k \in 1..Len(args.source_images) }
            IN  IF Cardinality(uniqueness_criteria) > 1
                THEN Raise("InconsistentSourceImages")
                ELSE Pass

\* lines 208-226: at least one source image, all of one study, series, size
\* and frame of reference
CheckSourceImages ==
    /\ pc = "source_images"
    /\ IF Len(args.source_images) = 0
       THEN Raise("NoSourceImage")
       ELSE LET uniqueness_criteria ==
                    { << args.source_images[k].StudyInstanceUID,
                         args.source_images[k].SeriesInstanceUID,
                         args.source_images[k].Rows,
                         args.source_images[k].Columns,
                         args.source_images[k].FrameOfReferenceUID >> :
                      k \in 1..Len(args.source_images) }
            IN  IF Cardinality(uniqueness_criteria) > 1
                THEN Raise("InconsistentSourceImages")
                ELSE Pass

\* lines 228-238: a multi-frame source image is the only source image
CheckMultiframe ==
    /\ pc = "multiframe"
    /\ LET src_img == args.source_images[1]
           multiframe == src_img.NumberOfFrames # None
       IN  IF multiframe /\ Len(args.source_images) > 1
           THEN Raise("MultipleMultiFrameSourceImages")
           ELSE /\ pc' = NextPc(pc)
                /\ is_multiframe' = multiframe
                /\ UNCHANGED << args, error, pixel_array,
                                real_world_value_mappings, plane_positions,
                                coordinate_system, sffg_item, pixel_data_type,
                                self, frame_items >>

\* lines 240-259, mutated: the compressed syntaxes are offered to arrays of
\* every kind
CheckTransferSyntaxAnyKind ==
    /\ pc = "transfer_syntax"
    /\ LET supported_transfer_syntaxes ==
               { ImplicitVRLittleEndian, ExplicitVRLittleEndian,
                 JPEG2000Lossless, RLELossless }
       IN  IF args.transfer_syntax_uid \notin supported_transfer_syntaxes
           THEN Raise("UnsupportedStorageSyntax")
           ELSE Pass

\* lines 240-259: the transfer syntax can carry the array's kind
CheckTransferSyntax ==
    /\ pc = "transfer_syntax"
    /\ LET supported_transfer_syntaxes ==
               { ImplicitVRLittleEndian, ExplicitVRLittleEndian }
               \cup ( IF Kind(pixel_array.dtype) \in { "u", "i" }
                      THEN { JPEG2000Lossless, RLELossless }
                      ELSE {} )
       IN  IF args.transfer_syntax_uid \notin supported_transfer_syntaxes
           THEN Raise("UnsupportedStorageSyntax")
           ELSE Pass

\* lines 261-262, mutated: a window of width zero is accepted
CheckWindowWidthNotNegative ==
    /\ pc = "window_width"
    /\ IF args.window_width < 0
       THEN Raise("InvalidWindow")
       ELSE Pass

\* lines 261-262
CheckWindowWidth ==
    /\ pc = "window_width"
    /\ IF args.window_width <= 0
       THEN Raise("InvalidWindow")
       ELSE Pass

\* lines 264-430: a 2D array gets its position axis; SOPClass.__init__ sets
\* the file meta information; the coordinate system is read off the first
\* source image; then, by the rank of the array, the mappings are checked
\* to be flat (2D, 3D) or nested (4D), the array is reshaped to
\* (n, r, c, m) and the mappings are nested
CheckMappingShape ==
    /\ pc = "mapping_shape"
    /\ LET src_img == args.source_images[1]
           expanded == IF ndim(pixel_array) = 2
                       THEN NewAxisFirst(pixel_array)
                       ELSE pixel_array
           rwvm == real_world_value_mappings
           Continue(array, mappings, shared) ==
               /\ pc' = NextPc(pc)
               /\ pixel_array' = array
               /\ real_world_value_mappings' = mappings
               /\ sffg_item' = shared
               /\ coordinate_system' =
                      Some(IF src_img.ImageOrientationSlide
                           THEN "SLIDE" ELSE "PATIENT")
               /\ self' = [ self EXCEPT
                              !.TransferSyntaxUID = Some(args.transfer_syntax_uid),
                              !.Rows = Some(array.shape[2]),
                              !.Columns = Some(array.shape[3]) ]
               /\ UNCHANGED << args, error, plane_positions, is_multiframe,
                               pixel_data_type, frame_items >>
       IN  IF ndim(expanded) \in { 2, 3 }
           THEN IF rwvm.items = <<>>
                THEN Raise("MappingShapeMismatch")   \* IndexError -> TypeError
                ELSE IF rwvm.nested
                THEN Raise("MappingShapeMismatch")   \* not a RealWorldValueMapping
                ELSE Continue(
                         IF ndim(expanded) = 2
                         THEN NewAxisLast(NewAxisFirst(expanded))
                         ELSE NewAxisLast(expanded),
                         [ nested |-> TRUE, items |-> << rwvm.items >> ],
                         [ EmptyGroup EXCEPT
                             !.RealWorldValueMappingSequence = Some(rwvm.items) ])
           ELSE IF ndim(expanded) = 4
           THEN IF rwvm.items = <<>>
                THEN Raise("MappingShapeMismatch")   \* IndexError -> TypeError
                ELSE IF ~rwvm.nested
                THEN Raise("MappingShapeMismatch")   \* item[0]: no such element
                ELSE IF rwvm.items[1] = <<>>
                THEN Raise("MappingShapeMismatch")   \* IndexError -> TypeError
                ELSE Continue(expanded, rwvm, EmptyGroup)
           ELSE Raise("InvalidArrayRank")

\* lines 432-437, mutated: more collections than channels are accepted
CheckMappingCountAtLeast ==
    /\ pc = "mapping_count"
    /\ IF Len(real_world_value_mappings.items) < pixel_array.shape[4]
       THEN Raise("MappingCountMismatch")
       ELSE Pass

\* lines 432-437: one collection of mappings per channel
CheckMappingCount ==
    /\ pc = "mapping_count"
    /\ IF Len(real_world_value_mappings.items) # pixel_array.shape[4]
       THEN Raise("MappingCountMismatch")
       ELSE Pass

\* lines 439-461, mutated: the positions derived from the source image(s)
\* are not counted
CheckPlanePositionsGivenOnly ==
    /\ pc = "plane_positions"
    /\ LET positions ==
               IF plane_positions = None
               THEN IF is_multiframe
                    THEN get_plane_positions_of_image(args.source_images[1])
                    ELSE get_plane_positions_of_series(args.source_images)
               ELSE Head(plane_positions)
       IN  IF plane_positions = None /\ ~is_multiframe
              /\ series_has_no_positions(args.source_images)
           THEN Raise("PlanePositionsUnavailable")
           ELSE IF plane_positions # None
                   /\ Len(positions) # pixel_array.shape[1]
           THEN Raise("PlaneCountMismatch")
           ELSE /\ pc' = NextPc(pc)
                /\ plane_positions' = Some(positions)
                /\ UNCHANGED << args, error, pixel_array,
                                real_world_value_mappings, is_multiframe,
                                coordinate_system, sffg_item, pixel_data_type,
                                self, frame_items >>

\* lines 439-461: the plane positions, given or derived from the source
\* image(s), are one per position of the array
CheckPlanePositions ==
    /\ pc = "plane_positions"
    /\ LET positions ==
               IF plane_positions = None
               THEN IF is_multiframe
                    THEN get_plane_positions_of_image(args.source_images[1])
                    ELSE get_plane_positions_of_series(args.source_images)
               ELSE Head(plane_positions)
       IN  IF plane_positions = None /\ ~is_multiframe
              /\ series_has_no_positions(args.source_images)
           THEN Raise("PlanePositionsUnavailable")
           ELSE IF Len(positions) # pixel_array.shape[1]
           THEN Raise("PlaneCountMismatch")
           ELSE /\ pc' = NextPc(pc)
                /\ plane_positions' = Some(positions)
                /\ UNCHANGED << args, error, pixel_array,
                                real_world_value_mappings, is_multiframe,
                                coordinate_system, sffg_item, pixel_data_type,
                                self, frame_items >>

\* lines 463-547: the shared functional group gets the pixel value
\* transformation and the window; the pixel data type is resolved and fixes
\* the bit depth attributes
ResolvePixelDataType ==
    /\ pc = "pixel_data_type"
    /\ LET transformation_item ==
               IF Kind(pixel_array.dtype) = "i"
               THEN [ RescaleIntercept |-> Pow2(16) \div 2, RescaleSlope |-> 1 ]
               ELSE [ RescaleIntercept |-> 0, RescaleSlope |-> 1 ]
           voi_lut_item == [ WindowWidth |-> args.window_width ]
           shared == [ sffg_item EXCEPT
                         !.PixelValueTransformationSequence = << transformation_item >>,
                         !.FrameVOILUTSequence = << voi_lut_item >> ]
           resolved == get_pixel_data_type_and_attr(pixel_array)
           with_group == [ self EXCEPT !.SharedFunctionalGroupsSequence = << shared >> ]
       IN  IF resolved.raised
           THEN Raise("UnsupportedElementType")
           ELSE /\ pc' = NextPc(pc)
                /\ sffg_item' = shared
                /\ pixel_data_type' = Some([ type |-> resolved.type, attr |-> resolved.attr ])
                /\ self' =
                     IF resolved.type \in { SHORT, USHORT }
                     THEN [ with_group EXCEPT
                              !.BitsAllocated = Some(16),
                              !.BitsStored = Some(16),
                              !.HighBit = Some(16 - 1),
                              !.PixelRepresentation = Some(0) ]
                     ELSE IF resolved.type = SINGLE
                     THEN [ with_group EXCEPT !.BitsAllocated = Some(32) ]
                     ELSE [ with_group EXCEPT !.BitsAllocated = Some(64) ]
                /\ UNCHANGED << args, error, pixel_array,
                                real_world_value_mappings, plane_positions,
                                is_multiframe, coordinate_system, frame_items >>

\* ------------------------------------- ParametricMap._create_frame_items
\* lines 549-555 and 599-604: the call, up to the loops
CreateFrameItems ==
    /\ pc = "create_frame_items"
    /\ spatial_index_values' = get_index_values(Head(plane_positions))
    /\ per_frame_functional_groups' = <<>>
    /\ frames' = <<>>
    /\ i' = 0
    /\ j' = 0
    /\ pc' = IF pixel_array.shape[1] = 0 \/ pixel_array.shape[4] = 0
             THEN NextPc(NextPc(pc))
             ELSE NextPc(pc)
    /\ UNCHANGED << args, error, locals >>

\* lines 605-606, mutated: the inner loop visits the first channel only
range_next_first_channel(p, q, n, m) ==
    [ i |-> p + 1, j |-> 0, more |-> p + 1 < n ]

\* lines 605-606, mutated: the loops are nested the other way round
range_next_channel_major(p, q, n, m) ==
    IF p + 1 < n
    THEN [ i |-> p + 1, j |-> q, more |-> TRUE ]
    ELSE [ i |-> 0, j |-> q + 1, more |-> q + 1 < m ]

\* lines 605-606: for i in range(n): for j in range(m): the pair after
\* (p, q), and whether there is one
range_next(p, q, n, m) ==
    IF q + 1 < m
    THEN [ i |-> p, j |-> q + 1, more |-> TRUE ]
    ELSE [ i |-> p + 1, j |-> 0, more |-> p + 1 < n ]

\* lines 607-630, mutated: every frame gets the mappings of the first channel
pffg_item_first_channel(p, q) ==
    [ PlanePosition |-> Head(plane_positions)[p + 1],
      CoordinateSystem |-> Head(coordinate_system),
      DimensionIndexValues |-> spatial_index_values[p + 1],
      RealWorldValueMappingSequence |->
          IF pixel_array.shape[4] > 1
          THEN Some(real_world_value_mappings.items[1])
          ELSE None ]

\* lines 604 and 607-630: the per-frame functional group of position p and
\* channel q; the plane position is stored as PlanePositionSlideSequence or
\* as PlanePositionSequence, by the coordinate system
pffg_item(p, q) ==
    LET has_multiple_mappings == pixel_array.shape[4] > 1
    IN  [ PlanePosition |-> Head(plane_positions)[p + 1],
          CoordinateSystem |-> Head(coordinate_system),
          DimensionIndexValues |-> spatial_index_values[p + 1],
          RealWorldValueMappingSequence |->
              IF has_multiple_mappings
              THEN Some(real_world_value_mappings.items[q + 1])
              ELSE None ]

\* lines 605-635: one pass of the inner loop, for position i and channel j;
\* an exception of _encode_frame (729-733) or of encode_frame (737-743)
\* leaves the loop and the constructor
FrameIteration ==
    /\ pc = "frame"
    /\ \E codec_raises \in encode_frame_raises(self) :
         LET plane == Plane(pixel_array, i, j)
             encoded == self_encode_frame(self, plane)
             next == range_next(i, j, pixel_array.shape[1], pixel_array.shape[4])
         IN  IF encoded.raised
             THEN Raise("NotASinglePlane")
             ELSE IF codec_raises
             THEN Raise("FrameEncodingError")
             ELSE /\ per_frame_functional_groups' =
                         Append(per_frame_functional_groups, pffg_item(i, j))
                  /\ frames' = Append(frames, encoded.bytes)
                  /\ i' = next.i
                  /\ j' = next.j
                  /\ pc' = IF next.more THEN pc ELSE NextPc(pc)
                  /\ UNCHANGED << args, error, locals, spatial_index_values >>

\* lines 556-563: the frame count, the per-frame groups and the pixel data
Assemble ==
    /\ pc = "assemble"
    /\ LET pixel_data ==
               IF is_encapsulated(Head(self.TransferSyntaxUID))
               THEN encapsulate(frames)
               ELSE Concat(frames)
           counted == [ self EXCEPT
                          !.NumberOfFrames = Some(Len(frames)),
                          !.PerFrameFunctionalGroupsSequence =
                              Some(per_frame_functional_groups) ]
           pixel_data_attr == Head(pixel_data_type).attr
       IN  self' =
             IF pixel_data_attr = "PixelData"
             THEN [ counted EXCEPT !.PixelData = Some(pixel_data) ]
             ELSE IF pixel_data_attr = "FloatPixelData"
             THEN [ counted EXCEPT !.FloatPixelData = Some(pixel_data) ]
             ELSE [ counted EXCEPT !.DoubleFloatPixelData = Some(pixel_data) ]
    /\ pc' = NextPc(pc)
    /\ UNCHANGED << args, error, pixel_array, real_world_value_mappings,
                    plane_positions, is_multiframe, coordinate_system,
                    sffg_item, pixel_data_type, frame_items >>

Next ==
    \/ CheckSourceImages
    \/ CheckMultiframe
    \/ CheckTransferSyntax
    \/ CheckWindowWidth
    \/ CheckMappingShape
    \/ CheckMappingCount
    \/ CheckPlanePositions
    \/ ResolvePixelDataType
    \/ CreateFrameItems
    \/ FrameIteration
    \/ Assemble

Spec == Init /\ [][Next]_vars

\* --------------------------------------------- the range of source images
\* single-frame images that differ from SingleFrameImage in one attribute
OtherSeriesImage == [ SingleFrameImage EXCEPT !.SeriesInstanceUID = "series-2" ]
OtherRowsImage == [ SingleFrameImage EXCEPT !.Rows = PlaneRows + 1 ]
OtherColumnsImage == [ SingleFrameImage EXCEPT !.Columns = PlaneCols + 1 ]
OtherFrameOfReferenceImage ==
    [ SingleFrameImage EXCEPT !.FrameOfReferenceUID = "frame-of-reference-2" ]

\* a multi-frame image of the patient coordinate system
MultiFramePatientImage == SourceImage("study-1", Some(MaxPlanes), FALSE)

\* the source image sets above, sets of two images that differ in one of the
\* five compared attributes, and series that hold a multi-frame image
\* after a single-frame image
MoreSourceImageSets ==
    SourceImageSets
    \cup { <<SingleFrameImage, image>> :
             image \in { OtherSeriesImage, OtherRowsImage, OtherColumnsImage,
                         OtherFrameOfReferenceImage } }
    \cup { <<OtherFrameOfReferenceImage, OtherFrameOfReferenceImage>>,
           <<SingleFrameImage, SingleFrameImage, OtherStudyImage>>,
           <<SingleFrameImage, MultiFramePatientImage>>,
           <<SingleFrameImage, MultiFrameImage>>,
           <<MultiFrameImage, SingleFrameImage>> }

SourceArguments ==
    [ source_images : MoreSourceImageSets,
      pixel_array : { ArrayOf(d, <<n, PlaneRows, PlaneCols>>) :
                        d \in { "uint8", "float32" }, n \in 1..MaxPlanes },
      real_world_value_mappings : { FlatMappings(1) },
      window_width : { 1 },
      transfer_syntax_uid : { ImplicitVRLittleEndian, JPEG2000Lossless },
      plane_positions : PlanePositionArgs ]

InitSources == \E a \in SourceArguments : InitWith(a)

\* the constructor on every set of source images, the other arguments such
\* that only the source images and the plane count can fail the build
SpecSources == InitSources /\ [][Next]_vars

\* ------------------------------------------- the full range of the samples
\* the arguments of a build on the one-sample 2D array of value v
SampleArguments(dtype, v, uid) ==
    [ source_images |-> <<SingleFrameImage>>,
      pixel_array |-> [ dtype |-> dtype, shape |-> <<1, 1>>, data |-> << v >> ],
      real_world_value_mappings |-> FlatMappings(1),
      window_width |-> 1,
      transfer_syntax_uid |-> uid,
      plane_positions |-> None ]

InitSamples ==
    \E dtype \in { "int8", "int16", "uint8", "uint16" } :
        \E v \in Lo(dtype)..Hi(dtype) :
            InitWith(SampleArguments(dtype, v, ImplicitVRLittleEndian))

\* the constructor, in native mode, on every sample value of the integer
\* dtypes
SpecSamples == InitSamples /\ [][Next]_vars

\* ------------------------------------------ frames encoded by workers
\* The loops of _create_frame_items (605-637) handed to independent workers:
\* the frames are submitted as n * m empty slots, a worker encodes the frame
\* of any empty slot k with _encode_frame and puts the bytes into the slot,
\* and when no slot is empty the per-frame groups are made in frame order.
SubmitFrames ==
    /\ pc = "create_frame_items"
    /\ spatial_index_values' = get_index_values(Head(plane_positions))
    /\ per_frame_functional_groups' = <<>>
    /\ frames' = [ k \in 1..(pixel_array.shape[1] * pixel_array.shape[4]) |-> <<>> ]
    /\ i' = 0
    /\ j' = 0
    /\ pc' = NextPc(pc)
    /\ UNCHANGED << args, error, locals >>

WorkerEncodesFrame ==
    /\ pc = "frame"
    /\ \E k \in 1..Len(frames) :
         \E codec_raises \in encode_frame_raises(self) :
           /\ frames[k] = <<>>
           /\ LET p == (k - 1) \div pixel_array.shape[4]
                  q == (k - 1) % pixel_array.shape[4]
                  encoded == self_encode_frame(self, Plane(pixel_array, p, q))
              IN  IF encoded.raised
                  THEN Raise("NotASinglePlane")
                  ELSE IF codec_raises
                  THEN Raise("FrameEncodingError")
                  ELSE /\ frames' = [ frames EXCEPT ![k] = encoded.bytes ]
                       /\ UNCHANGED << args, pc, error, locals,
                                       spatial_index_values,
                                       per_frame_functional_groups, i, j >>

CollectFrames ==
    /\ pc = "frame"
    /\ \A k \in 1..Len(frames) : frames[k] # <<>>
    /\ per_frame_functional_groups' =
           [ k \in 1..Len(frames) |->
               pffg_item((k - 1) \div pixel_array.shape[4],
                         (k - 1) % pixel_array.shape[4]) ]
    /\ pc' = NextPc(pc)
    /\ UNCHANGED << args, error, locals, spatial_index_values, frames, i, j >>

NextWorkers ==
    \/ CheckSourceImages
    \/ CheckMultiframe
    \/ CheckTransferSyntax
    \/ CheckWindowWidth
    \/ CheckMappingShape
    \/ CheckMappingCount
    \/ CheckPlanePositions
    \/ ResolvePixelDataType
    \/ SubmitFrames
    \/ WorkerEncodesFrame
    \/ CollectFrames
    \/ Assemble

\* arguments of every supported element type, shape of rank 4 and transfer
\* syntax, the source images and the mappings such that they fit
WorkerArguments ==
    [ source_images : { <<SingleFrameImage>>, <<MultiFrameImage>> },
      pixel_array : { ArrayOf(d, <<n, PlaneRows, PlaneCols, m>>) :
                        d \in { "int8", "int16", "uint8", "uint16",
                                "float32", "float64" },
                        n \in 1..MaxPlanes, m \in 1..MaxChannels },
      real_world_value_mappings :
          { NestedMappings(len, 0) : len \in 1..MaxChannels },
      window_width : { 1 },
      transfer_syntax_uid : TransferSyntaxes,
      plane_positions : PlanePositionArgs ]

InitWorkers == \E a \in WorkerArguments : InitWith(a)

\* the constructor with the frames encoded by workers, in any order
SpecWorkers == InitWorkers /\ [][NextWorkers]_vars

\* ========================================= Comprehensive3DSR.__init__
\* (src/src/highdicom/sr/sop.py)  The constructor of the structured report
\* runs on the variables args, pc, error and self; the other variables are
\* not used by it.
\* a data set of the evidence or of the previous versions
ReportDataset(study, series, instance) ==
    [ StudyInstanceUID |-> study,
      SeriesInstanceUID |-> series,
      SOPInstanceUID |-> instance ]

EvidenceArgs ==
    { <<>>,
      << ReportDataset("study-1", "series-1", "instance-1") >>,
      << ReportDataset("study-1", "series-1", "instance-1"),
         ReportDataset("study-1", "series-2", "instance-2") >>,
      << ReportDataset("study-1", "series-1", "instance-1"),
         ReportDataset("study-2", "series-3", "instance-3") >> }

PreviousVersionArgs ==
    { None,
      Some(<<>>),
      Some(<< ReportDataset("study-1", "series-4", "instance-4") >>),
      Some(<< ReportDataset("study-2", "series-5", "instance-5") >>) }

ReportArguments ==
    [ evidence : EvidenceArgs,
      is_complete : BOOLEAN,
      is_final : BOOLEAN,
      is_verified : BOOLEAN,
      verifying_observer_name : { None, Some("observer") },
      verifying_organization : { None, Some("organization") },
      requested_procedures : { None, Some(<< "procedure" >>) },
      previous_versions : PreviousVersionArgs,
      record_evidence : BOOLEAN ]

\* no attribute of the report is set
NoReportAttributes ==
    [ CompletionFlag |-> None,
      VerificationFlag |-> None,
      VerifyingObserverSequence |-> None,
      PreliminaryFlag |-> None,
      ReferencedRequestSequence |-> None,
      CurrentRequestedProcedureEvidenceSequence |-> None,
      PertinentOtherEvidenceSequence |-> None,
      PredecessorDocumentsSequence |-> None ]

\* the variables the constructor of the report does not use
unused ==
    << pixel_array, real_world_value_mappings, plane_positions, is_multiframe,
       coordinate_system, sffg_item, pixel_data_type, frame_items >>

\* the call Comprehensive3DSR(...) has bound its arguments
InitReport ==
    \E a \in ReportArguments :
        /\ args = a
        /\ pc = "completion"
        /\ error = None
        /\ self = NoReportAttributes
        /\ pixel_array = None
        /\ real_world_value_mappings = None
        /\ plane_positions = None
        /\ is_multiframe = FALSE
        /\ coordinate_system = None
        /\ sffg_item = None
        /\ pixel_data_type = None
        /\ spatial_index_values = <<>>
        /\ per_frame_functional_groups = <<>>
        /\ frames = <<>>
        /\ i = 0
        /\ j = 0

\* the order of the steps of the constructor of the report
NextReportPc(p) ==
    CASE p = "completion" -> "verification"
      [] p = "verification" -> "preliminary"
      [] p = "preliminary" -> "evidence"
      [] p = "evidence" -> "previous_versions"
      [] OTHER -> "done"

\* a step of the report that sets attributes
SetReport(attributes) ==
    /\ pc' = NextReportPc(pc)
    /\ self' = attributes
    /\ UNCHANGED << args, error, unused >>

\* a step of the report that raises
RaiseReport(e) ==
    /\ pc' = "failed"
    /\ error' = Some(e)
    /\ UNCHANGED << args, self, unused >>

\* lines 104-132
SetCompletionFlag ==
    /\ pc = "completion"
    /\ SetReport([ self EXCEPT
                     !.CompletionFlag =
                         Some(IF args.is_complete THEN "COMPLETE" ELSE "PARTIAL") ])

\* lines 133-151: the item is bound to the name ovserver_item (145-148),
\* line 149 reads the name observer_item, which is bound nowhere
SetVerificationFlag ==
    /\ pc = "verification"
    /\ IF args.is_verified
       THEN IF args.verifying_observer_name = None
            THEN RaiseReport("ValueError: Verifying Observer Name")
            ELSE IF args.verifying_organization = None
            THEN RaiseReport("ValueError: Verifying Organization")
            ELSE /\ pc' = "failed"
                 /\ error' = Some("NameError: observer_item")
                 /\ self' = [ self EXCEPT !.VerificationFlag = Some("VERIFIED") ]
                 /\ UNCHANGED << args, unused >>
       ELSE SetReport([ self EXCEPT !.VerificationFlag = Some("UNVERIFIED") ])

\* lines 152-161
SetPreliminaryFlag ==
    /\ pc = "preliminary"
    /\ SetReport([ self EXCEPT
                     !.PreliminaryFlag =
                         Some(IF args.is_final THEN "FINAL" ELSE "PRELIMINARY") ])

\* lines 163-182 and 191-210: the data sets by series, the series in the
\* order of their first data set
RECURSIVE ReferencedSeriesSequence(_)
ReferencedSeriesSequence(datasets) ==
    IF datasets = <<>> THEN <<>>
    ELSE LET series == Head(datasets).SeriesInstanceUID
             Same(d) == d.SeriesInstanceUID = series
             Other(d) == d.SeriesInstanceUID # series
             same == SelectSeq(datasets, Same)
         IN  << [ SeriesInstanceUID |-> series,
                  ReferencedSOPSequence |->
                      [ k \in 1..Len(same) |-> same[k].SOPInstanceUID ] ] >>
             \o ReferencedSeriesSequence(SelectSeq(datasets, Other))

\* lines 163-188
RecordEvidence ==
    /\ pc = "evidence"
    /\ IF \E k \in 1..Len(args.evidence) :
             args.evidence[k].StudyInstanceUID
                 # args.evidence[1].StudyInstanceUID
       THEN RaiseReport("ValueError: Referenced data sets")
       ELSE IF args.evidence = <<>>
       THEN RaiseReport("IndexError")
       ELSE LET evd_study_item ==
                    [ StudyInstanceUID |-> args.evidence[1].StudyInstanceUID,
                      ReferencedSeriesSequence |->
                          ReferencedSeriesSequence(args.evidence) ]
            IN  SetReport(
                    IF args.requested_procedures # None
                    THEN [ self EXCEPT
                             !.ReferencedRequestSequence =
                                 args.requested_procedures,
                             !.CurrentRequestedProcedureEvidenceSequence =
                                 Some(<< evd_study_item >>) ]
                    ELSE IF args.record_evidence
                    THEN [ self EXCEPT
                             !.PertinentOtherEvidenceSequence =
                                 Some(<< evd_study_item >>) ]
                    ELSE self)

\* lines 190-221
RecordPreviousVersions ==
    /\ pc = "previous_versions"
    /\ IF args.previous_versions = None
       THEN SetReport(self)
       ELSE LET previous == Head(args.previous_versions)
            IN  IF \E k \in 1..Len(previous) :
                      previous[k].StudyInstanceUID
                          # args.evidence[1].StudyInstanceUID
                THEN RaiseReport("ValueError: Previous version data sets")
                ELSE IF previous = <<>>
                THEN RaiseReport("IndexError")
                ELSE SetReport(
                         [ self EXCEPT
                             !.PredecessorDocumentsSequence =
                                 Some(<< [ StudyInstanceUID |->
                                              previous[1].StudyInstanceUID,
                                          ReferencedSeriesSequence |->
                                              ReferencedSeriesSequence(previous) ] >>) ])

NextReport ==
    \/ SetCompletionFlag
    \/ SetVerificationFlag
    \/ SetPreliminaryFlag
    \/ RecordEvidence
    \/ RecordPreviousVersions

SpecReport == InitReport /\ [][NextReport]_vars

\* =================================================================== claims
\* What the caller passed, read off args alone.
InRank == ndim(args.pixel_array)
InShape == args.pixel_array.shape
InDtype == args.pixel_array.dtype

\* the sizes (n, r, c, m) of an argument array of rank 2, 3 or 4
InN == IF InRank = 2 THEN 1 ELSE InShape[1]
InR == IF InRank = 2 THEN InShape[1] ELSE InShape[2]
InC == IF InRank = 2 THEN InShape[2] ELSE InShape[3]
InM == IF InRank = 4 THEN InShape[4] ELSE 1

\* the argument array seen as (n, r, c, m)
InArray ==
    [ dtype |-> InDtype, shape |-> << InN, InR, InC, InM >>,
      data |-> args.pixel_array.data ]

\* the collection of mappings the caller supplied for channel q (from 0)
InMappings(q) ==
    IF args.real_world_value_mappings.nested
    THEN args.real_world_value_mappings.items[q + 1]
    ELSE args.real_world_value_mappings.items

\* the plane positions the caller supplied, or those of the source image(s)
InPositions ==
    IF args.plane_positions # None THEN Head(args.plane_positions)
    ELSE IF args.source_images[1].NumberOfFrames # None
    THEN get_plane_positions_of_image(args.source_images[1])
    ELSE get_plane_positions_of_series(args.source_images)

\* the constructor has returned the instance
Built == pc = "done"
Failed == pc = "failed"

SharedGroup == Head(self.SharedFunctionalGroupsSequence)
PerFrameGroups == Head(self.PerFrameFunctionalGroupsSequence)

Encapsulated == is_encapsulated(args.transfer_syntax_uid)

\* C1 (as claimed): in every build with one channel (m = 1), of an array of
\* rank 2, 3 or 4, the shared functional group carries the channel's
\* mappings and no per-frame functional group carries mappings.
C1_SingleChannelMappingIsShared ==
    (Built /\ InM = 1) =>
        /\ SharedGroup.RealWorldValueMappingSequence = Some(InMappings(0))
        /\ \A k \in 1..Len(PerFrameGroups) :
               PerFrameGroups[k].RealWorldValueMappingSequence = None

\* C2: in every build with several channels (m > 1) the shared functional
\* group carries no mappings, and the per-frame group of position p and
\* channel q carries exactly the mappings supplied for channel q.
C2_MultiChannelMappingIsPerFrame ==
    (Built /\ InM > 1) =>
        /\ SharedGroup.RealWorldValueMappingSequence = None
        /\ Len(PerFrameGroups) = InN * InM
        /\ \A p \in 0..(InN - 1) : \A q \in 0..(InM - 1) :
               PerFrameGroups[p * InM + q + 1].RealWorldValueMappingSequence
                   = Some(InMappings(q))

\* a build of several channels whose mappings differ from channel to channel
C2_Witness ==
    /\ Built
    /\ InM > 1
    /\ InMappings(0) # InMappings(1)
    /\ PerFrameGroups[2].RealWorldValueMappingSequence = Some(InMappings(1))

\* C3: in every build, on an array normalized to (n, r, c, m), the number of
\* encoded frames, the number of per-frame functional groups and the
\* attribute NumberOfFrames all equal n * m.
C3_FrameCount ==
    Built =>
        /\ Len(frames) = InN * InM
        /\ Len(PerFrameGroups) = InN * InM
        /\ self.NumberOfFrames = Some(InN * InM)

\* a build of several positions and several channels
C3_Witness ==
    /\ Built
    /\ InN > 1
    /\ InM > 1
    /\ self.NumberOfFrames = Some(InN * InM)

\* C4: frames are emitted position-major, channel-minor: the frame at index
\* k = p * m + q has the plane position and the dimension-index values of
\* position p and the payload encoded from the plane array[p, :, :, q]; the
\* per-frame groups and the frame payloads are in the same order.
C4_PositionMajorOrder ==
    Built =>
        /\ Len(frames) = Len(PerFrameGroups)
        /\ \A p \in 0..(InN - 1) : \A q \in 0..(InM - 1) :
               LET k == p * InM + q
               IN  /\ k + 1 \in 1..Len(frames)
                   /\ PerFrameGroups[k + 1].PlanePosition = InPositions[p + 1]
                   /\ PerFrameGroups[k + 1].DimensionIndexValues
                          = get_index_values(InPositions)[p + 1]
                   /\ frames[k + 1]
                          = self_encode_frame(self, Plane(InArray, p, q)).bytes

\* a build of two positions and two channels, whose third frame (k = 2) is
\* that of the second position and the first channel
C4_Witness ==
    /\ Built
    /\ InN = 2
    /\ InM = 2
    /\ PerFrameGroups[3].PlanePosition = InPositions[2]
    /\ PerFrameGroups[3].PlanePosition # InPositions[1]
    /\ frames[3] # frames[2]

\* the 16-bit sample s (from 0) of frame k (from 0) as a reader decodes it:
\* from the two bytes of the native buffer, or from the code stream of the
\* frame
DecodedSample(k, s) ==
    IF Encapsulated
    THEN frames[k + 1][3 + s + 1]
    ELSE LET at == 2 * (k * InR * InC + s)
         IN  Head(self.PixelData)[at + 1] + 256 * Head(self.PixelData)[at + 2]

\* the value of the argument array that sample s of frame k stands for
OriginalSample(k, s) ==
    Plane(InArray, k \div InM, k % InM).data[s + 1]

\* C5 (as claimed): in either storage mode, for signed 8-bit or 16-bit input
\* every stored sample equals the original value plus the rescale intercept
\* 2^15.
C5_SignedSamplesAreShifted ==
    (Built /\ InDtype \in { "int8", "int16" }) =>
        \A k \in 0..(InN * InM - 1) : \A s \in 0..(InR * InC - 1) :
            DecodedSample(k, s) = OriginalSample(k, s) + Pow2(15)

\* C6: in native mode, the 16-bit sample read back from the buffer is v for
\* an unsigned 8-bit or 16-bit input value v, and v + 2^15 for a signed one.
C6_NativeIntegerRoundTrip ==
    (Built /\ ~Encapsulated /\ InDtype \in { "int8", "int16", "uint8", "uint16" }) =>
        /\ Len(Head(self.PixelData)) = 2 * InN * InM * InR * InC
        /\ \A k \in 0..(InN * InM - 1) : \A s \in 0..(InR * InC - 1) :
               /\ DecodedSample(k, s) \in 0..(Pow2(16) - 1)
               /\ DecodedSample(k, s) =
                      IF Kind(InDtype) = "i"
                      THEN OriginalSample(k, s) + Pow2(15)
                      ELSE OriginalSample(k, s)

\* a native build holding the smallest signed 16-bit value, read back as 0
C6_Witness ==
    /\ Built
    /\ ~Encapsulated
    /\ InDtype = "int16"
    /\ OriginalSample(0, 0) = -32768
    /\ DecodedSample(0, 0) = 0

\* ------------------------------------ what is wrong with the arguments
NoSource == args.source_images = <<>>

InconsistentSources ==
    \E a, b \in 1..Len(args.source_images) :
        \/ args.source_images[a].StudyInstanceUID # args.source_images[b].StudyInstanceUID
        \/ args.source_images[a].SeriesInstanceUID # args.source_images[b].SeriesInstanceUID
        \/ args.source_images[a].Rows # args.source_images[b].Rows
        \/ args.source_images[a].Columns # args.source_images[b].Columns
        \/ args.source_images[a].FrameOfReferenceUID
               # args.source_images[b].FrameOfReferenceUID

MultiFrameNotAlone ==
    /\ Len(args.source_images) > 1
    /\ args.source_images[1].NumberOfFrames # None

BadSources == NoSource \/ InconsistentSources \/ MultiFrameNotAlone

BadSyntax ==
    ~ \/ args.transfer_syntax_uid \in { ImplicitVRLittleEndian, ExplicitVRLittleEndian }
      \/ /\ args.transfer_syntax_uid \in { JPEG2000Lossless, RLELossless }
         /\ InDtype \in { "int8", "int16", "int32", "uint8", "uint16", "uint32" }

BadWindow == args.window_width <= 0

BadRank == InRank \notin { 2, 3, 4 }

\* flat mappings with a 4D array, nested mappings with a 2D or 3D array, no
\* mappings at all, or a first channel without mappings
BadMappingShape ==
    /\ ~BadRank
    /\ \/ args.real_world_value_mappings.items = <<>>
       \/ InRank = 4 /\ ~args.real_world_value_mappings.nested
       \/ InRank \in { 2, 3 } /\ args.real_world_value_mappings.nested
       \/ /\ InRank = 4
          /\ args.real_world_value_mappings.nested
          /\ args.real_world_value_mappings.items[1] = <<>>

\* a nested sequence whose length is not the number of channels
BadMappingCount ==
    /\ InRank = 4
    /\ args.real_world_value_mappings.nested
    /\ Len(args.real_world_value_mappings.items) # InShape[4]

\* the mapping argument does not fit the array, in the sense of C7
MappingMisfit ==
    /\ ~BadRank
    /\ \/ args.real_world_value_mappings.items = <<>>
       \/ InRank = 4 /\ ~args.real_world_value_mappings.nested
       \/ InRank \in { 2, 3 } /\ args.real_world_value_mappings.nested
       \/ BadMappingCount

\* no positions given, and a series of which an image has none
NoSeriesPositions ==
    /\ args.plane_positions = None
    /\ args.source_images[1].NumberOfFrames = None
    /\ series_has_no_positions(args.source_images)

BadPlaneCount == ~BadRank /\ Len(InPositions) # InN

BadKind ==
    InDtype \notin { "int8", "int16", "uint8", "uint16", "float32", "float64" }

\* C7: the build fails, producing no document, whenever the mapping argument
\* does not fit the array (flat for 4D, nested for 2D or 3D, empty, or of a
\* length other than m): it never gets past the checks of the mappings, and
\* encodes no frame.
C7_MappingMisfitFails ==
    MappingMisfit =>
        /\ pc \in { "source_images", "multiframe", "transfer_syntax",
                    "window_width", "mapping_shape", "mapping_count", "failed" }
        /\ frames = <<>>
        /\ self.NumberOfFrames = None

\* a 4D array with one collection of mappings more than channels has failed
C7_Witness ==
    /\ Failed
    /\ error = Some("MappingCountMismatch")
    /\ InRank = 4
    /\ Len(args.real_world_value_mappings.items) = InShape[4] + 1

\* C8 (as claimed): a build succeeds only if every channel is described by
\* at least one mapping.
C8_EveryChannelHasAMapping ==
    Built => \A q \in 0..(InM - 1) : InMappings(q) # <<>>

\* the stage of each failure, by the stages as claimed: Validating (1),
\* Resolving (2), Indexing (3), GroupAssembling (4), Encoding (5)
ClaimedStage(e) ==
    CASE e \in { "NoSourceImage", "InconsistentSourceImages",
                 "MultipleMultiFrameSourceImages", "UnsupportedStorageSyntax",
                 "InvalidWindow", "InvalidArrayRank" } -> 1
      [] e = "UnsupportedElementType" -> 2
      [] e \in { "PlanePositionsUnavailable", "PlaneCountMismatch" } -> 3
      [] e \in { "MappingShapeMismatch", "MappingCountMismatch" } -> 4
      [] OTHER -> 5

\* the earliest stage, as claimed, of which the arguments violate a check
EarliestClaimedStage ==
    IF BadSources \/ BadSyntax \/ BadWindow \/ BadRank THEN 1
    ELSE IF BadKind THEN 2
    ELSE IF NoSeriesPositions \/ BadPlaneCount THEN 3
    ELSE IF MappingMisfit \/ BadMappingShape THEN 4
    ELSE 5

\* C9 (as claimed): the stages are passed in the order Validating,
\* Resolving, Indexing, GroupAssembling, Encoding, so arguments that violate
\* checks of several stages fail with the error of the earliest stage.
C9_FailsAtEarliestClaimedStage ==
    Failed => ClaimedStage(Head(error)) = EarliestClaimedStage

\* the first check, in the order of the constructor, that the arguments
\* violate: source images, storage syntax, window; rank and shape of the
\* mappings; count of the mappings; plane count; element type
FirstViolation ==
    IF NoSource THEN "NoSourceImage"
    ELSE IF InconsistentSources THEN "InconsistentSourceImages"
    ELSE IF MultiFrameNotAlone THEN "MultipleMultiFrameSourceImages"
    ELSE IF BadSyntax THEN "UnsupportedStorageSyntax"
    ELSE IF BadWindow THEN "InvalidWindow"
    ELSE IF BadRank THEN "InvalidArrayRank"
    ELSE IF BadMappingShape THEN "MappingShapeMismatch"
    ELSE IF BadMappingCount THEN "MappingCountMismatch"
    ELSE IF NoSeriesPositions THEN "PlanePositionsUnavailable"
    ELSE IF BadPlaneCount THEN "PlaneCountMismatch"
    ELSE IF BadKind THEN "UnsupportedElementType"
    ELSE "none"

\* C9 (amended): the checks are passed in the order Validating (source
\* images, storage syntax, window), rank and mapping shape
\* (GroupAssembling), Indexing (plane count), Resolving (element type),
\* then Encoding: a build fails with the error of the first check in this
\* order that its arguments violate, and completes only if they violate
\* none; when they violate none, only the codec can fail it.
C9_FailsAtFirstCheckInOrder ==
    /\ Failed =>
          error = Some(IF FirstViolation = "none"
                       THEN "FrameEncodingError" ELSE FirstViolation)
    /\ Built => FirstViolation = "none"
    /\ (FirstViolation = "none" /\ Failed) => Encapsulated

\* arguments with an unsupported element type and a wrong plane count have
\* failed on the plane count
C9_Witness ==
    /\ Failed
    /\ error = Some("PlaneCountMismatch")
    /\ BadKind
    /\ BadPlaneCount

ValidationErrors ==
    { "NoSourceImage", "InconsistentSourceImages",
      "MultipleMultiFrameSourceImages", "UnsupportedStorageSyntax",
      "InvalidWindow", "InvalidArrayRank", "UnsupportedElementType",
      "PlanePositionsUnavailable", "PlaneCountMismatch",
      "MappingShapeMismatch", "MappingCountMismatch" }

\* C10: every validation failure is raised before the first frame is
\* encoded: when one has been raised, the frame encoder has not been called.
C10_ValidationBeforeEncoding ==
    (error # None /\ Head(error) \in ValidationErrors) =>
        /\ frames = <<>>
        /\ per_frame_functional_groups = <<>>
        /\ self.NumberOfFrames = None

\* the last of the validation checks, that of the element type, has failed
\* on arguments that pass every other check
C10_Witness ==
    /\ Failed
    /\ error = Some("UnsupportedElementType")
    /\ ~BadPlaneCount
    /\ frames = <<>>

\* the attribute of the instance that holds the pixel buffer of a build
PixelBuffer ==
    IF InDtype = "float32" THEN self.FloatPixelData
    ELSE IF InDtype = "float64" THEN self.DoubleFloatPixelData
    ELSE self.PixelData

\* C11: a build is all-or-nothing.  A failure at any stage, that of the
\* codec on some frame after earlier frames were encoded included, is
\* terminal: no step follows it, and no document is returned.  A document is
\* returned by the step that follows the encoding of all n * m frames only,
\* with no error and with the frame count, the per-frame sequence and the
\* pixel buffer all set.
C11_AllOrNothing ==
    [][ /\ ~Failed
        /\ ~Built
        /\ Built' =>
              /\ error' = None
              /\ pc = "assemble"
              /\ Len(frames') = InN * InM
              /\ self'.NumberOfFrames = Some(InN * InM)
              /\ self'.PerFrameFunctionalGroupsSequence # None
              /\ Len(PerFrameGroups') = InN * InM
              /\ PixelBuffer' # None ]_vars

\* the codec has failed on a frame after other frames were encoded, and
\* nothing of the frames was set on the instance
C11_Witness ==
    /\ Failed
    /\ error = Some("FrameEncodingError")
    /\ Len(frames) >= 1
    /\ self.NumberOfFrames = None
    /\ self.PerFrameFunctionalGroupsSequence = None
    /\ PixelBuffer = None

\* the width in bytes of a stored sample, as claimed
SampleWidth ==
    IF InDtype = "float32" THEN 4 ELSE IF InDtype = "float64" THEN 8 ELSE 2

\* the first count items of an encapsulated buffer, read from offset at: each
\* item is its length followed by its bytes
RECURSIVE Items(_, _, _)
Items(buffer, at, count) ==
    IF count = 0 THEN <<>>
    ELSE << SubSeq(buffer, at + 2, at + 1 + buffer[at + 1]) >>
         \o Items(buffer, at + 1 + buffer[at + 1], count - 1)

\* C12: in native mode the pixel buffer is the concatenation of the n * m
\* frame payloads in frame order, each of r * c samples of w bytes (w = 2
\* for every integer input, 4 for float32, 8 for float64): it is
\* n * m * r * c * w bytes long and frame k occupies the bytes
\* [k * r * c * w, (k + 1) * r * c * w).  In encapsulated mode the buffer is
\* the encapsulation of the same payloads in the same order.
C12_PixelBufferLayout ==
    Built =>
        LET buffer == Head(PixelBuffer)
            size == InR * InC * SampleWidth
        IN  /\ Len(frames) = InN * InM
            /\ IF Encapsulated
               THEN /\ buffer[1] = InN * InM
                    /\ Items(buffer, 1, buffer[1]) = frames
                    /\ Len(buffer) = 1 + Len(frames) + Len(Concat(frames))
               ELSE /\ Len(buffer) = InN * InM * size
                    /\ \A k \in 0..(InN * InM - 1) :
                           /\ Len(frames[k + 1]) = size
                           /\ SubSeq(buffer, k * size + 1, (k + 1) * size)
                                  = frames[k + 1]

\* a native build of four frames of 32-bit floats: 32 bytes, the last eight
\* of them the fourth frame
C12_Witness ==
    /\ Built
    /\ ~Encapsulated
    /\ InDtype = "float32"
    /\ InN * InM = 4
    /\ Len(Head(self.FloatPixelData)) = 4 * InR * InC * 4
    /\ SubSeq(Head(self.FloatPixelData), 3 * InR * InC * 4 + 1, 4 * InR * InC * 4)
           = frames[4]

\* the steps of the constructor up to the check of the transfer syntax
UpToSyntaxCheck == { "source_images", "multiframe", "transfer_syntax" }

\* C13: a floating-point array with a compressed syntax (JPEG 2000 Lossless,
\* RLE Lossless) fails the build, and so does any array with a syntax outside
\* the four supported ones: the build never gets past the check of the
\* syntax.  An array of integer kind passes the check for all four
\* syntaxes, and every array passes it for the two uncompressed ones.
C13_SyntaxFitsElementKind ==
    /\ ( /\ Kind(InDtype) = "f"
         /\ args.transfer_syntax_uid \in { JPEG2000Lossless, RLELossless } )
           => pc \in UpToSyntaxCheck \cup { "failed" }
    /\ args.transfer_syntax_uid \notin
           { ImplicitVRLittleEndian, ExplicitVRLittleEndian,
             JPEG2000Lossless, RLELossless }
           => pc \in UpToSyntaxCheck \cup { "failed" }
    /\ ( /\ Kind(InDtype) \in { "i", "u" }
         /\ args.transfer_syntax_uid \in
                { ImplicitVRLittleEndian, ExplicitVRLittleEndian,
                  JPEG2000Lossless, RLELossless } )
           => error # Some("UnsupportedStorageSyntax")
    /\ args.transfer_syntax_uid \in
           { ImplicitVRLittleEndian, ExplicitVRLittleEndian }
           => error # Some("UnsupportedStorageSyntax")

\* an array of 32-bit floats has failed on a compressed syntax, with source
\* images that pass their checks
C13_Witness ==
    /\ Failed
    /\ error = Some("UnsupportedStorageSyntax")
    /\ InDtype = "float32"
    /\ args.transfer_syntax_uid = RLELossless

\* the element kind has been resolved: the constructor is past line 547
Resolved == pc \in { "create_frame_items", "frame", "assemble", "done" }

\* the pixel value transformation of the shared functional group
Transformation == Head(SharedGroup.PixelValueTransformationSequence)

\* C14: the resolution of the element kind is total.  Signed and unsigned
\* 8-bit and 16-bit input resolve to BitsAllocated 16, BitsStored 16,
\* HighBit 15, PixelRepresentation 0; 32-bit floats to BitsAllocated 32 and
\* 64-bit floats to BitsAllocated 64, neither with BitsStored or HighBit.
\* Signed input gets the rescale intercept 2^15 and slope 1, every other
\* supported kind the intercept 0 and slope 1.  Any other kind or width is
\* never resolved: the build fails.
C14_ElementKindResolution ==
    /\ BadKind => ~Resolved
    /\ (Resolved /\ InDtype \in { "int8", "int16", "uint8", "uint16" }) =>
          /\ self.BitsAllocated = Some(16)
          /\ self.BitsStored = Some(16)
          /\ self.HighBit = Some(15)
          /\ self.PixelRepresentation = Some(0)
    /\ (Resolved /\ InDtype \in { "float32", "float64" }) =>
          /\ self.BitsAllocated = Some(IF InDtype = "float32" THEN 32 ELSE 64)
          /\ self.BitsStored = None
          /\ self.HighBit = None
    /\ Resolved =>
          /\ Len(SharedGroup.PixelValueTransformationSequence) = 1
          /\ Transformation.RescaleSlope = 1
          /\ Transformation.RescaleIntercept =
                 IF InDtype \in { "int8", "int16" } THEN 32768 ELSE 0

\* a build on signed 8-bit input: 16 bits and the intercept 2^15
C14_Witness ==
    /\ Built
    /\ InDtype = "int8"
    /\ self.BitsAllocated = Some(16)
    /\ Transformation.RescaleIntercept = 32768

\* the array has been normalized: the constructor is past line 430
Normalized ==
    pc \in { "mapping_count", "plane_positions", "pixel_data_type",
             "create_frame_items", "frame", "assemble", "done" }

\* C15: an array of a rank other than 2, 3 or 4 (0, 1 and 5 included) fails
\* the build: it never gets past the check of the rank.  An array (r, c) of
\* rank 2 is normalized to (1, r, c, 1), one (n, r, c) of rank 3 to
\* (n, r, c, 1), one of rank 4 is left as it is, the elements in their
\* order; Rows is r and Columns is c in every build.
C15_RankNormalization ==
    /\ InRank \notin { 2, 3, 4 } =>
          pc \in { "source_images", "multiframe", "transfer_syntax",
                   "window_width", "mapping_shape", "failed" }
    /\ Normalized =>
          /\ pixel_array.shape =
                 CASE InRank = 2 -> << 1, InShape[1], InShape[2], 1 >>
                   [] InRank = 3 -> << InShape[1], InShape[2], InShape[3], 1 >>
                   [] InRank = 4 -> InShape
          /\ pixel_array.data = args.pixel_array.data
          /\ pixel_array.dtype = InDtype
    /\ Built =>
          /\ self.Rows = Some(InR)
          /\ self.Columns = Some(InC)

\* a build on an array (r, c) of rank 2, with r other than c
C15_Witness ==
    /\ Built
    /\ InRank = 2
    /\ InShape[1] # InShape[2]
    /\ pixel_array.shape = << 1, InShape[1], InShape[2], 1 >>
    /\ self.Rows = Some(InShape[1])
    /\ self.Columns = Some(InShape[2])

\* the plane positions of the build are known from the arguments: they are
\* given, or there are source images to derive them from
PositionsKnown ==
    \/ args.plane_positions # None
    \/ ~NoSource /\ ~NoSeriesPositions

\* C16: the build fails whenever the number of plane positions differs from
\* the number n of positions of the array, for positions given by the caller
\* and for positions derived from the source image(s) alike: it never gets
\* past the count of the positions.  Every build has exactly n plane
\* positions, those given or derived.
C16_OnePlanePositionPerPosition ==
    /\ (PositionsKnown /\ BadPlaneCount) =>
          pc \in { "source_images", "multiframe", "transfer_syntax",
                   "window_width", "mapping_shape", "mapping_count",
                   "plane_positions", "failed" }
    /\ Built =>
          /\ plane_positions = Some(InPositions)
          /\ Len(Head(plane_positions)) = InN
          /\ \A k \in 1..Len(PerFrameGroups) :
                 \E p \in 1..InN :
                     PerFrameGroups[k].PlanePosition = InPositions[p]

\* positions derived from the one multi-frame source image, which has not as
\* many frames as the array has positions: the build has failed
C16_Witness ==
    /\ Failed
    /\ error = Some("PlaneCountMismatch")
    /\ args.plane_positions = None
    /\ args.source_images[1].NumberOfFrames # None
    /\ Len(get_plane_positions_of_image(args.source_images[1])) # InN

\* C17: the build fails when there is no source image, or when any two
\* source images differ in the study UID, the series UID, the frame of
\* reference UID, the rows or the columns: it stops at this check, with its
\* error.  In every build there is a source image and all source images
\* agree on all five attributes.
C17_SourceImagesAgree ==
    /\ (NoSource \/ InconsistentSources) =>
          /\ pc \in { "source_images", "failed" }
          /\ Failed =>
                error = Some(IF NoSource THEN "NoSourceImage"
                             ELSE "InconsistentSourceImages")
    /\ Built =>
          /\ Len(args.source_images) >= 1
          /\ \A a, b \in 1..Len(args.source_images) :
                 LET one == args.source_images[a]
                     other == args.source_images[b]
                 IN  /\ one.StudyInstanceUID = other.StudyInstanceUID
                     /\ one.SeriesInstanceUID = other.SeriesInstanceUID
                     /\ one.FrameOfReferenceUID = other.FrameOfReferenceUID
                     /\ one.Rows = other.Rows
                     /\ one.Columns = other.Columns

\* two source images that differ in the frame of reference only: the build
\* has failed
C17_Witness ==
    /\ Failed
    /\ error = Some("InconsistentSourceImages")
    /\ args.source_images = << SingleFrameImage, OtherFrameOfReferenceImage >>

\* C18: a window width that is zero or negative fails the build before any
\* frame is encoded: the build never gets past the check of the window, and
\* on arguments that pass the checks before it (source images, storage
\* syntax) it fails with the invalid-window error.  Every build has a window
\* width above zero, recorded in the shared functional group.
C18_WindowWidthIsPositive ==
    /\ args.window_width <= 0 =>
          /\ pc \in { "source_images", "multiframe", "transfer_syntax",
                      "window_width", "failed" }
          /\ frames = <<>>
          /\ (Failed /\ ~BadSources /\ ~BadSyntax) =>
                error = Some("InvalidWindow")
    /\ Built =>
          /\ args.window_width > 0
          /\ Len(SharedGroup.FrameVOILUTSequence) = 1
          /\ Head(SharedGroup.FrameVOILUTSequence).WindowWidth
                 = args.window_width

\* a window of width zero, on arguments that are valid otherwise: the build
\* has failed on the window
C18_Witness ==
    /\ Failed
    /\ error = Some("InvalidWindow")
    /\ args.window_width = 0
    /\ FirstViolation = "InvalidWindow"
    /\ ~BadRank
    /\ ~MappingMisfit
    /\ ~BadMappingShape
    /\ ~BadPlaneCount
    /\ ~BadKind
    /\ frames = <<>>

\* the frames of the sequential pass (605-637) over the argument array: the
\* frame of index k = p * m + q is the encoding of array[p, :, :, q]
SequentialFrames ==
    [ k \in 1..(InN * InM) |->
        self_encode_frame(self, Plane(InArray, (k - 1) \div InM,
                                      (k - 1) % InM)).bytes ]

\* C19: the encoding of a frame depends on no other frame: the payload of
\* frame (p, q) is a function of the plane array[p, :, :, q] and of the
\* parameters of the document that are fixed before the encoding starts,
\* and encoding writes none of them.  So when workers encode the n * m
\* frames in any order, each result put at its index k = p * m + q, every
\* frame encoded so far is the one the sequential pass gives, no parameter
\* has changed, and the build ends with the frame sequence and the pixel
\* buffer of the sequential pass.
C19_FramesAreIndependent ==
    /\ pc \in { "frame", "assemble", "done" } =>
          /\ Len(frames) = InN * InM
          /\ \A k \in 1..Len(frames) :
                 frames[k] # <<>> => frames[k] = SequentialFrames[k]
          /\ pixel_array = InArray
          /\ self.TransferSyntaxUID = Some(args.transfer_syntax_uid)
          /\ self.BitsAllocated =
                 Some(IF InDtype = "float32" THEN 32
                      ELSE IF InDtype = "float64" THEN 64 ELSE 16)
    /\ Built =>
          /\ frames = SequentialFrames
          /\ Head(PixelBuffer) =
                 IF Encapsulated THEN encapsulate(SequentialFrames)
                 ELSE Concat(SequentialFrames)
          /\ self.NumberOfFrames = Some(InN * InM)

\* the last frame has been encoded while the first has not
C19_Witness ==
    /\ pc = "frame"
    /\ Len(frames) = 4
    /\ frames[1] = <<>>
    /\ frames[2] # <<>>
    /\ frames[4] = SequentialFrames[4]
    /\ frames[4] # SequentialFrames[2]

\* some source image is a multi-frame image
ContainsMultiFrame ==
    \E k \in 1..Len(args.source_images) :
        args.source_images[k].NumberOfFrames # None

\* C20 (as claimed): if the source images contain a multi-frame image and
\* are more than one, the build fails; in every build the source images are
\* exactly one multi-frame image or single-frame images only, and plane
\* positions that are not given are derived from the image or from the
\* series accordingly.
C20_MultiFrameSourceIsAlone ==
    /\ (ContainsMultiFrame /\ Len(args.source_images) > 1) => ~Built
    /\ Built =>
          /\ \/ Len(args.source_images) = 1 /\ ContainsMultiFrame
             \/ ~ContainsMultiFrame
          /\ args.plane_positions = None =>
                plane_positions =
                    Some(IF ContainsMultiFrame
                         THEN get_plane_positions_of_image(args.source_images[1])
                         ELSE get_plane_positions_of_series(args.source_images))

\* C21: whenever a frame is encoded in encapsulated mode, the parameters of
\* the codec have been set before: BitsAllocated 16, BitsStored 16,
\* PixelRepresentation 0.  No sequence of checks lets an array of floats, or
\* of integers other than of 8 or 16 bits, reach the codec: the array of a
\* build that is about to encode a frame, or has encoded one, in encapsulated
\* mode is of signed or unsigned 8-bit or 16-bit integers, and every frame
\* was encoded with these parameters.
C21_CodecParametersAreSet ==
    (Encapsulated /\ (pc = "frame" \/ frames # <<>>)) =>
        /\ self.TransferSyntaxUID = Some(args.transfer_syntax_uid)
        /\ self.BitsAllocated = Some(16)
        /\ self.BitsStored = Some(16)
        /\ self.PixelRepresentation = Some(0)
        /\ InDtype \in { "int8", "int16", "uint8", "uint16" }
        /\ \A k \in 1..Len(frames) :
               SubSeq(frames[k], 1, 3) = << 16, 16, 0 >>

\* the second frame of an encapsulated build is about to be encoded, the
\* first was encoded with the parameters 16, 16, 0
C21_Witness ==
    /\ pc = "frame"
    /\ Encapsulated
    /\ Len(frames) = 1
    /\ SubSeq(frames[1], 1, 3) = << 16, 16, 0 >>
    /\ self.BitsStored = Some(16)

\* the errors of the report that are not raised by lines 133-151
LaterReportErrors ==
    { "ValueError: Referenced data sets", "IndexError",
      "ValueError: Previous version data sets" }

\* C22 (as claimed): with is_verified true the construction of the report
\* fails with a value error if the name of the verifying observer or the
\* verifying organization is missing, and otherwise gets past the
\* verification and completes with VerificationFlag VERIFIED and a
\* VerifyingObserverSequence of exactly one item that holds the given name
\* and organization; with is_verified false it completes with
\* VerificationFlag UNVERIFIED and no VerifyingObserverSequence.
C22_VerificationHandling ==
    /\ ( /\ args.is_verified
         /\ \/ args.verifying_observer_name = None
            \/ args.verifying_organization = None
         /\ pc \notin { "completion", "verification" } )
           => /\ Failed
              /\ error \in { Some("ValueError: Verifying Observer Name"),
                              Some("ValueError: Verifying Organization") }
    /\ ( /\ args.is_verified
         /\ args.verifying_observer_name # None
         /\ args.verifying_organization # None )
           => /\ Failed => Head(error) \in LaterReportErrors
              /\ Built =>
                    /\ self.VerificationFlag = Some("VERIFIED")
                    /\ self.VerifyingObserverSequence =
                           Some(<< [ VerifyingObserverName |->
                                        Head(args.verifying_observer_name),
                                    VerifyingOrganization |->
                                        Head(args.verifying_organization) ] >>)
    /\ ~args.is_verified
           => /\ Failed => Head(error) \in LaterReportErrors
              /\ Built =>
                    /\ self.VerificationFlag = Some("UNVERIFIED")
                    /\ self.VerifyingObserverSequence = None
====
